---- MODULE Spec2Model ----
(***************************************************************************)
(* A model of the fact-check analysis core of chkyoo/factcheck-engine:     *)
(* PriorityScorer (src/src/priority_scorer.py) and ClaimDetector           *)
(* (src/src/claim_detector.py).                                            *)
(*                                                                         *)
(* Text is a sequence of characters.  A character is a one-element string; *)
(* a Hangul syllable is written by its transliteration, so that the module *)
(* is plain ASCII: "jeong" is the one character U+C815, <<"jeong","bu">>  *)
(* is the two-character word "government" of political_keywords.           *)
(***************************************************************************)
EXTENDS Integers, Sequences, FiniteSets, TLC

VARIABLES
    scorers,            \* PriorityScorer instances: id -> the fields set by __init__
    article,            \* calculate_score's argument article (a dict)
    claims,             \* calculate_score's argument claims (a list of dicts)
    has_vague_source,   \* calculate_score's argument has_vague_source
    result,             \* the dict the first calculate_score call returned
    result2,            \* the dict a later call with the same arguments returned
    callers,            \* the instances calculate_score was called on, in call order
    pc,                 \* position of the scoring client
    text,               \* detect's argument text
    candidates,         \* detect's local list claims, before _deduplicate
    detected,           \* the list detect returned
    dpc,                \* position of the detecting client
    articles,           \* _deduplicate_articles' argument: the dicts the caller holds
    groups,             \* the lists group the last call built, as positions in articles
    unique_articles,    \* the list the last call returned, as positions in articles
    returned,           \* what each call returned, as the caller saw it at the return
    given,              \* a copy of the batch as it was before the first call
    manual_url,         \* run_daily_report: os.getenv('ARTICLE_URL'), None when unset
    pending_articles,   \* run_daily_report: the (url, title, source, score) to analyse
    cursor,             \* run_daily_report: how many pending articles the loop has taken
    analyzed_articles,  \* run_daily_report: the analysed articles kept so far
    analysis_log,       \* what happened to each pending article the loop has taken
    final_articles,     \* run_daily_report: the list deduplication returned
    emails,             \* the emails handed to SMTP, in order, delivered or not
    rpc,                \* position of run_daily_report
    rows,               \* RSSMonitor: the rows of table articles, in insertion order
    saved,              \* the last call, if _save_article: arguments, returned value
    fetched             \* the last call, if get_pending_articles: limit and result

vars == <<scorers, article, claims, has_vague_source, result, result2, callers, pc,
          text, candidates, detected, dpc,
          articles, groups, unique_articles, returned, given,
          manual_url, pending_articles, cursor, analyzed_articles, analysis_log,
          final_articles, emails, rpc, rows, saved, fetched>>

scoreVars == <<scorers, article, claims, has_vague_source, result, result2, callers, pc>>
detectVars == <<text, candidates, detected, dpc>>
dedupVars == <<articles, groups, unique_articles, returned, given>>
reportVars == <<manual_url, pending_articles, cursor, analyzed_articles, analysis_log,
                final_articles, emails, rpc>>
storeVars == <<rows, saved, fetched>>

None == "None"

DedupIdle ==
    /\ articles = <<>>
    /\ groups = <<>>
    /\ unique_articles = <<>>
    /\ returned = <<>>
    /\ given = <<>>

ReportIdle ==
    /\ manual_url = None
    /\ pending_articles = <<>>
    /\ cursor = 0
    /\ analyzed_articles = <<>>
    /\ analysis_log = <<>>
    /\ final_articles = <<>>
    /\ emails = <<>>
    /\ rpc = "idle"

StoreIdle ==
    /\ rows = <<>>
    /\ saved = <<>>
    /\ fetched = <<>>

-----------------------------------------------------------------------------
(* Python str and dict operations                                          *)

\* kw in s
Contains(kw, s) ==
    \E i \in 0..(Len(s) - Len(kw)) : SubSeq(s, i + 1, i + Len(kw)) = kw

\* any(kw in s for kw in kws)
AnyIn(kws, s) == \E k \in 1..Len(kws) : Contains(kws[k], s)

\* {}
EmptyDict == [k \in {} |-> 0]

\* d[key] = value
Put(d, key, value) ==
    [k \in (DOMAIN d) \cup {key} |-> IF k = key THEN value ELSE d[k]]

\* d.get(key, default)
Get(d, key, default) == IF key \in DOMAIN d THEN d[key] ELSE default

RECURSIVE SumOver(_, _)
SumOver(d, keys) ==
    IF keys = {} THEN 0
    ELSE LET k == CHOOSE x \in keys : TRUE IN d[k] + SumOver(d, keys \ {k})

\* sum(d.values())
SumValues(d) == SumOver(d, DOMAIN d)

-----------------------------------------------------------------------------
(* PriorityScorer                                                          *)

WEIGHTS ==
    [statistical_claim |-> 30,
     causal_claim |-> 20,
     extreme_language |-> 15,
     vague_source |-> 25,
     political_economic |-> 10]

THRESHOLD == 30

political_keywords ==
    << <<"jeong", "bu">>, <<"jeong", "chaeg">>, <<"gug", "hoe">>,
       <<"dae", "tong", "ryeong">>, <<"jang", "gwan">>,
       <<"yeo", "dang">>, <<"ya", "dang">>, <<"seon", "geo">>, <<"beob", "an">> >>

economic_keywords ==
    << <<"gyeong", "je">>, <<"G", "D", "P">>, <<"seong", "jang", "ryul">>,
       <<"mul", "ga">>, <<"geum", "ri">>,
       <<"bu", "chae">>, <<"se", "geum">>, <<"wol", "se">>, <<"jeon", "se">>,
       <<"ju", "taeg">>,
       <<"sil", "eob">>, <<"go", "yong">>, <<"im", "geum">>, <<"so", "deug">> >>

\* the strong-tone keywords of the title bonus
title_keywords ==
    << <<"jeung", "ga">>, <<"gam", "so">>, <<"pog", "jeung">>, <<"geub", "jeung">>,
       <<"ha", "rag">>, <<"choe", "dae">>, <<"choe", "jeo">>, <<"yeog", "dae">> >>

\* __init__: the fields of a new instance
NewScorer ==
    [political_keywords |-> political_keywords,
     economic_keywords |-> economic_keywords]

\* _is_political_or_economic(text)
IsPoliticalOrEconomic(self, s) ==
    AnyIn(self.political_keywords, s) \/ AnyIn(self.economic_keywords, s)

\* what a call of calculate_score leaves in the fields of self: it assigns none
ScorerAfterCall_Learning(self, art, cs, vague) ==
    [self EXCEPT !.political_keywords =
        IF Get(art, "title", <<>>) = <<>> THEN @ ELSE Append(@, Get(art, "title", <<>>))]

ScorerAfterCall(self, art, cs, vague) == self

\* [c for c in claims if c['type'] == t]
OfType(cs, t) == SelectSeq(cs, LAMBDA c : c.type = t)

\* score += points; breakdown[key] = points
Award_NoSum(acc, key, points) ==
    [score |-> acc.score, breakdown |-> Put(acc.breakdown, key, points)]

Award(acc, key, points) ==
    [score |-> acc.score + points, breakdown |-> Put(acc.breakdown, key, points)]

\* points = self.WEIGHTS[key], for a category that the claims in matching trigger
TypePoints_PerClaim(key, matching) == WEIGHTS[key] * Len(matching)

TypePoints(key, matching) == WEIGHTS[key]

\* the text searched for political and economic keywords
JoinedText_NoSeparator(art) == Get(art, "text", <<>>) \o Get(art, "title", <<>>)

JoinedText(art) == Get(art, "text", <<>>) \o <<" ">> \o Get(art, "title", <<>>)

\* should_factcheck = score >= self.THRESHOLD
ShouldFactcheck_Strict(score) == score > THRESHOLD

ShouldFactcheck_AtMedium(score) == score >= 70

\* should_factcheck = score >= 85
ShouldFactcheck_AtHigh(score) == score >= 85

ShouldFactcheck(score) == score >= THRESHOLD

\* the priority tier of a score
PriorityOf_Strict(score) ==
    IF score > 85 THEN "HIGH" ELSE IF score > 70 THEN "MEDIUM" ELSE "LOW"

PriorityOf(score) ==
    IF score >= 85 THEN "HIGH" ELSE IF score >= 70 THEN "MEDIUM" ELSE "LOW"

\* the name under which the title bonus is entered in breakdown
TitleKey == "title_keyword"

\* calculate_score(article, claims, has_vague_source)
CalculateScore(self, art, cs, vague) ==
    LET stat_claims == OfType(cs, "statistical")
        causal_claims == OfType(cs, "causal")
        extreme_claims == OfType(cs, "extreme")
        title == Get(art, "title", <<>>)
        a0 == [score |-> 0, breakdown |-> EmptyDict]
        a1 == IF stat_claims # <<>>
              THEN Award(a0, "statistical_claim", TypePoints("statistical_claim", stat_claims))
              ELSE a0
        a2 == IF causal_claims # <<>>
              THEN Award(a1, "causal_claim", TypePoints("causal_claim", causal_claims))
              ELSE a1
        a3 == IF extreme_claims # <<>>
              THEN Award(a2, "extreme_language", TypePoints("extreme_language", extreme_claims))
              ELSE a2
        a4 == IF vague THEN Award(a3, "vague_source", WEIGHTS["vague_source"]) ELSE a3
        a5 == IF IsPoliticalOrEconomic(self, JoinedText(art))
              THEN Award(a4, "political_economic", WEIGHTS["political_economic"])
              ELSE a4
        a6 == IF AnyIn(title_keywords, title) THEN Award(a5, TitleKey, 20) ELSE a5
    IN  [total_score |-> a6.score,
         breakdown |-> a6.breakdown,
         should_factcheck |-> ShouldFactcheck(a6.score),
         priority |-> PriorityOf(a6.score),
         claims_count |-> Len(cs),
         statistical_claims |-> Len(stat_claims),
         causal_claims |-> Len(causal_claims),
         extreme_claims |-> Len(extreme_claims)]

-----------------------------------------------------------------------------
(* Inputs of the scoring client                                            *)

MaxClaims == 5
MaxTitleParts == 1
MaxTextParts == 1

ScorerIds == {1, 2}

ClaimTypes == {"statistical", "causal", "extreme"}

\* a claim as detect builds it, as far as calculate_score reads it
ClaimOfType(t) ==
    [type |-> t, confidence |-> IF t = "statistical" THEN "HIGH" ELSE "MEDIUM"]

RECURSIVE SeqsUpTo(_, _)
SeqsUpTo(S, n) ==
    IF n = 0 THEN {<<>>}
    ELSE LET P == SeqsUpTo(S, n - 1) IN P \cup {Append(p, x) : p \in P, x \in S}

RECURSIVE Concats(_, _)
Concats(F, n) ==
    IF n = 0 THEN {<<>>}
    ELSE LET P == Concats(F, n - 1) IN P \cup {p \o f : p \in P, f \in F}

\* "all-time" (a title keyword), the second character of "government",
\* "tax" (an economic keyword)
TitleFragments == {<<"yeog", "dae">>, <<"bu">>, <<"se", "geum">>}

\* the first character of "government", "government" (a political keyword)
TextFragments == {<<"jeong">>, <<"jeong", "bu">>}

Titles == Concats(TitleFragments, MaxTitleParts)
Texts == Concats(TextFragments, MaxTextParts)

Articles ==
    {[title |-> t, text |-> x] : t \in Titles, x \in Texts}
    \cup {[title |-> t] : t \in Titles}
    \cup {[text |-> x] : x \in Texts}
    \cup {EmptyDict}

ClaimLists == SeqsUpTo({ClaimOfType(t) : t \in ClaimTypes}, MaxClaims)

-----------------------------------------------------------------------------
(* The scoring client: builds scorers, then calls calculate_score          *)

DetectIdle ==
    /\ text = <<>>
    /\ candidates = <<>>
    /\ detected = None
    /\ dpc = "idle"

ScoreInit ==
    /\ scorers = [i \in ScorerIds |-> NewScorer]
    /\ article \in Articles
    /\ claims \in ClaimLists
    /\ has_vague_source \in BOOLEAN
    /\ result = None
    /\ result2 = None
    /\ callers = <<>>
    /\ pc = "ready"
    /\ DetectIdle
    /\ DedupIdle
    /\ ReportIdle
    /\ StoreIdle

\* result = scorers[i].calculate_score(article, claims, has_vague_source)
ScoreCall(i) ==
    /\ pc = "ready"
    /\ result' = CalculateScore(scorers[i], article, claims, has_vague_source)
    /\ scorers' = [scorers EXCEPT ![i] =
            ScorerAfterCall(scorers[i], article, claims, has_vague_source)]
    /\ callers' = Append(callers, i)
    /\ pc' = "done"
    /\ UNCHANGED <<article, claims, has_vague_source, result2>>
    /\ UNCHANGED detectVars
    /\ UNCHANGED dedupVars
    /\ UNCHANGED reportVars
    /\ UNCHANGED storeVars

ScoreNext == \E i \in ScorerIds : ScoreCall(i)

SpecScore == ScoreInit /\ [][ScoreNext]_vars

-----------------------------------------------------------------------------
(* The replaying client: calls calculate_score, makes other calls on       *)
(* either instance, then repeats the first call on either instance         *)

MaxCalls == 3
MaxReplayClaims == 1

ReplayClaimLists == SeqsUpTo({ClaimOfType(t) : t \in ClaimTypes}, MaxReplayClaims)

\* arguments of the calls made between the first call and its repetition
OtherArticles ==
    {EmptyDict, [title |-> <<"yeog", "dae">>], [title |-> <<"bu">>, text |-> <<"jeong">>]}

OtherClaimLists == {<<>>, <<ClaimOfType("statistical")>>}

ReplayInit ==
    /\ scorers = [i \in ScorerIds |-> NewScorer]
    /\ article \in Articles
    /\ claims \in ReplayClaimLists
    /\ has_vague_source \in BOOLEAN
    /\ result = None
    /\ result2 = None
    /\ callers = <<>>
    /\ pc = "ready"
    /\ DetectIdle
    /\ DedupIdle
    /\ ReportIdle
    /\ StoreIdle

\* scorers[j].calculate_score(art, cs, vague), the returned dict dropped
OtherCall(j, art, cs, vague) ==
    /\ pc = "done"
    /\ Len(callers) + 1 < MaxCalls
    /\ scorers' = [scorers EXCEPT ![j] = ScorerAfterCall(scorers[j], art, cs, vague)]
    /\ callers' = Append(callers, j)
    /\ UNCHANGED <<article, claims, has_vague_source, result, result2, pc>>
    /\ UNCHANGED detectVars
    /\ UNCHANGED dedupVars
    /\ UNCHANGED reportVars
    /\ UNCHANGED storeVars

\* result2 = scorers[j].calculate_score(article, claims, has_vague_source)
CallAgain(j) ==
    /\ pc = "done"
    /\ result2' = CalculateScore(scorers[j], article, claims, has_vague_source)
    /\ scorers' = [scorers EXCEPT ![j] =
            ScorerAfterCall(scorers[j], article, claims, has_vague_source)]
    /\ callers' = Append(callers, j)
    /\ pc' = "again"
    /\ UNCHANGED <<article, claims, has_vague_source, result>>
    /\ UNCHANGED detectVars
    /\ UNCHANGED dedupVars
    /\ UNCHANGED reportVars
    /\ UNCHANGED storeVars

ReplayNext ==
    \/ \E i \in ScorerIds : ScoreCall(i)
    \/ \E j \in ScorerIds, art \in OtherArticles, cs \in OtherClaimLists, vague \in BOOLEAN :
          OtherCall(j, art, cs, vague)
    \/ \E j \in ScorerIds : CallAgain(j)

SpecReplay == ReplayInit /\ [][ReplayNext]_vars

-----------------------------------------------------------------------------
(* Python re: a pattern is a sequence of items, matched by backtracking    *)
(* in priority order as re does.  Positions are Python's: 0-based,         *)
(* text[pos] is t[pos + 1].                                                *)

Digits == {"0", "1", "2", "3", "4", "5", "6", "7", "8", "9"}
Whitespace == {" ", "\t", "\n", "\r", "\f"}

\* \d, \s and . (which does not match a newline)
InClass(cls, c) ==
    CASE cls = "d" -> c \in Digits
      [] cls = "s" -> c \in Whitespace
      [] cls = "dot" -> c # "\n"

\* \d+   \s*   .+?   .+
DigitsPlus == [k |-> "cls", cls |-> "d", min |-> 1, greedy |-> TRUE]
SpaceStar == [k |-> "cls", cls |-> "s", min |-> 0, greedy |-> TRUE]
DotPlusLazy == [k |-> "cls", cls |-> "dot", min |-> 1, greedy |-> FALSE]
DotPlus == [k |-> "cls", cls |-> "dot", min |-> 1, greedy |-> TRUE]

\* a literal, or an alternation (a|b|c) of literals, tried left to right
Lit(alts) == [k |-> "lit", alts |-> alts]

\* (?:sub)?
Opt(sub) == [k |-> "opt", sub |-> sub]

\* (\d+(?:\.\d+)?)
Number == <<DigitsPlus, Opt(<<Lit(<< <<".">> >>), DigitsPlus>>)>>

\* t.startswith(w, pos)
StartsWith(w, t, pos) ==
    pos + Len(w) <= Len(t) /\ SubSeq(t, pos + 1, pos + Len(w)) = w

\* the number of consecutive characters of class cls from pos on
RECURSIVE RunLen(_, _, _)
RunLen(cls, t, pos) ==
    IF pos < Len(t) /\ InClass(cls, t[pos + 1])
    THEN 1 + RunLen(cls, t, pos + 1)
    ELSE 0

\* pattern.match(t, pos): the end of the match of items at pos, -1 when none
RECURSIVE MatchHere(_, _, _)
RECURSIVE TryAlts(_, _, _, _, _)
RECURSIVE TryCounts(_, _, _, _, _, _)

\* the alternatives alts[n..] of an alternation, then rest
TryAlts(alts, n, rest, t, pos) ==
    IF n > Len(alts) THEN -1
    ELSE LET r == IF StartsWith(alts[n], t, pos)
                  THEN MatchHere(rest, t, pos + Len(alts[n]))
                  ELSE -1
         IN  IF r # -1 THEN r ELSE TryAlts(alts, n + 1, rest, t, pos)

\* a repetition taking n characters, then n + step, ... up to last; then rest
TryCounts(n, last, step, rest, t, pos) ==
    LET r == MatchHere(rest, t, pos + n)
    IN  IF r # -1 THEN r
        ELSE IF n = last THEN -1
        ELSE TryCounts(n + step, last, step, rest, t, pos)

MatchHere(items, t, pos) ==
    IF items = <<>> THEN pos
    ELSE LET it == Head(items)
             rest == Tail(items)
         IN  CASE it.k = "lit" -> TryAlts(it.alts, 1, rest, t, pos)
               [] it.k = "opt" ->
                    LET r == MatchHere(it.sub \o rest, t, pos)
                    IN  IF r # -1 THEN r ELSE MatchHere(rest, t, pos)
               [] it.k = "cls" ->
                    LET run == RunLen(it.cls, t, pos)
                    IN  IF run < it.min THEN -1
                        ELSE IF it.greedy
                        THEN TryCounts(run, it.min, -1, rest, t, pos)
                        ELSE TryCounts(it.min, run, 1, rest, t, pos)

\* re.finditer(pattern, t): the matches from pos on, leftmost first, not overlapping
RECURSIVE FindIter(_, _, _)
FindIter(items, t, pos) ==
    IF pos > Len(t) THEN <<>>
    ELSE LET e == MatchHere(items, t, pos)
         IN  IF e = -1 THEN FindIter(items, t, pos + 1)
             ELSE <<[start |-> pos, end |-> e]>>
                  \o FindIter(items, t, IF e = pos THEN pos + 1 ELSE e)

\* s.strip()
RECURSIVE LStrip(_)
LStrip(s) == IF s # <<>> /\ Head(s) \in Whitespace THEN LStrip(Tail(s)) ELSE s

RECURSIVE RStrip(_)
RStrip(s) ==
    IF s # <<>> /\ s[Len(s)] \in Whitespace THEN RStrip(SubSeq(s, 1, Len(s) - 1)) ELSE s

Strip(s) == RStrip(LStrip(s))

\* t.find(w), for w in t
RECURSIVE Find(_, _, _)
Find(w, t, pos) == IF StartsWith(w, t, pos) THEN pos ELSE Find(w, t, pos + 1)

Max(a, b) == IF a >= b THEN a ELSE b
Min(a, b) == IF a <= b THEN a ELSE b

-----------------------------------------------------------------------------
(* ClaimDetector                                                           *)

Direction4 ==
    Lit(<< <<"jeung", "ga">>, <<"gam", "so">>, <<"sang", "seung">>, <<"ha", "rag">> >>)

Extremum3 ==
    Lit(<< <<"choe", "dae">>, <<"choe", "go">>, <<"choe", "jeo">> >>)

stat_patterns ==
    << Number \o <<SpaceStar, Lit(<< <<"bae">> >>), SpaceStar, Direction4>>,
       Number \o <<SpaceStar, Lit(<< <<"%">> >>), SpaceStar,
                   Lit(<< <<"jeung", "ga">>, <<"gam", "so">>, <<"sang", "seung">>,
                          <<"ha", "rag">>, <<"dol", "pa">> >>)>>,
       Number \o <<SpaceStar, Lit(<< <<"jo">> >>), SpaceStar, Lit(<< <<"won">> >>)>>,
       Number \o <<SpaceStar, Lit(<< <<"eog">> >>), SpaceStar, Lit(<< <<"won">> >>)>>,
       <<Lit(<< <<"jeon", "nyeon">> >>), SpaceStar, Lit(<< <<"dae", "bi">> >>), SpaceStar>>
           \o Number \o <<SpaceStar, Lit(<< <<"%">> >>)>>,
       Number \o <<SpaceStar, Lit(<< <<"myeong">> >>), SpaceStar,
                   Lit(<< <<"jeung", "ga">>, <<"gam", "so">>, <<"sa", "mang">> >>)>>,
       Number \o <<SpaceStar, Lit(<< <<"geon">> >>), SpaceStar,
                   Lit(<< <<"jeung", "ga">>, <<"gam", "so">>, <<"bal", "saeng">> >>)>>,
       <<Lit(<< <<"sa", "sang">> >>), SpaceStar, Extremum3>>,
       <<Lit(<< <<"yeog", "dae">> >>), SpaceStar, Extremum3>> >>

causal_patterns ==
    << <<DotPlusLazy, SpaceStar,
         Lit(<< <<"ttae", "mun", "e">>, <<"tas", "e">> >>), SpaceStar, DotPlus>>,
       <<DotPlusLazy, SpaceStar,
         Lit(<< <<"yeong", "hyang", "eu", "ro">>, <<"yeo", "pa", "ro">> >>),
         SpaceStar, DotPlus>>,
       <<DotPlusLazy, SpaceStar, Lit(<< <<"ga">>, <<"i">> >>), SpaceStar,
         DotPlusLazy, SpaceStar, Lit(<< <<"cho", "rae">>, <<"yu", "bal">> >>)>> >>

extreme_words ==
    << <<"pog", "jeung">>, <<"geub", "jeung">>, <<"geub", "gam">>,
       <<"pog", "rag">>, <<"geub", "rag">>,
       <<"sa", "sang", " ", "choe", "dae">>, <<"sa", "sang", " ", "choe", "go">>,
       <<"yeog", "dae", " ", "choe", "dae">>, <<"yeog", "dae", " ", "choe", "go">>,
       <<"gi", "rog", "jeog">>, <<"jeon", "rye", "eobs", "neun">>,
       <<"yu", "rye", "eobs", "neun">> >>

\* text[max(0, s - 30):min(len(text), e + 30)].strip()
Context(t, s, e) == Strip(SubSeq(t, Max(0, s - 30) + 1, Min(Len(t), e + 30)))

\* the claims appended for the matches ms[n..] of one statistical pattern
RECURSIVE StatClaimsOf(_, _, _)
StatClaimsOf(t, ms, n) ==
    IF n > Len(ms) THEN <<>>
    ELSE <<[claim |-> Context(t, ms[n].start, ms[n].end),
            type |-> "statistical",
            confidence |-> "HIGH",
            matched_text |-> SubSeq(t, ms[n].start + 1, ms[n].end)]>>
         \o StatClaimsOf(t, ms, n + 1)

\* the claims appended for the matches ms[n..] of one causal pattern
RECURSIVE CausalClaimsOf(_, _, _)
CausalClaimsOf(t, ms, n) ==
    IF n > Len(ms) THEN <<>>
    ELSE <<[claim |-> SubSeq(t, ms[n].start + 1, ms[n].end),
            type |-> "causal",
            confidence |-> "MEDIUM",
            matched_text |-> SubSeq(t, ms[n].start + 1, ms[n].end)]>>
         \o CausalClaimsOf(t, ms, n + 1)

\* detect, step 1: for pattern in self.stat_patterns[n..]
RECURSIVE StatClaims(_, _)
StatClaims(t, n) ==
    IF n > Len(stat_patterns) THEN <<>>
    ELSE StatClaimsOf(t, FindIter(stat_patterns[n], t, 0), 1) \o StatClaims(t, n + 1)

\* detect, step 2: for pattern in self.causal_patterns[n..]
RECURSIVE CausalClaims(_, _)
CausalClaims(t, n) ==
    IF n > Len(causal_patterns) THEN <<>>
    ELSE CausalClaimsOf(t, FindIter(causal_patterns[n], t, 0), 1)
         \o CausalClaims(t, n + 1)

\* detect, step 3: for word in self.extreme_words[n..]
RECURSIVE ExtremeClaims(_, _)
ExtremeClaims(t, n) ==
    IF n > Len(extreme_words) THEN <<>>
    ELSE LET word == extreme_words[n]
         IN  (IF Contains(word, t)
              THEN LET idx == Find(word, t, 0)
                   IN  <<[claim |-> Context(t, idx, idx + Len(word)),
                          type |-> "extreme",
                          confidence |-> "MEDIUM",
                          matched_text |-> word]>>
              ELSE <<>>)
             \o ExtremeClaims(t, n + 1)

\* detect with the extreme-language step run before the pattern steps
Candidates_ExtremeFirst(t) ==
    ExtremeClaims(t, 1) \o StatClaims(t, 1) \o CausalClaims(t, 1)

\* detect: the list claims as it stands before _deduplicate
Candidates(t) == StatClaims(t, 1) \o CausalClaims(t, 1) \o ExtremeClaims(t, 1)

\* _deduplicate keyed on (type, matched_text)
RECURSIVE DedupLoop_PerType(_, _, _, _)
DedupLoop_PerType(cs, n, unique, seen) ==
    IF n > Len(cs) THEN unique
    ELSE LET key == <<cs[n].type, cs[n].matched_text>>
         IN  IF key \notin seen
             THEN DedupLoop_PerType(cs, n + 1, Append(unique, cs[n]), seen \cup {key})
             ELSE DedupLoop_PerType(cs, n + 1, unique, seen)

\* _deduplicate keyed on the snippet claim['claim']
RECURSIVE DedupLoop_BySnippet(_, _, _, _)
DedupLoop_BySnippet(cs, n, unique, seen) ==
    IF n > Len(cs) THEN unique
    ELSE LET key == cs[n].claim
         IN  IF key \notin seen
             THEN DedupLoop_BySnippet(cs, n + 1, Append(unique, cs[n]), seen \cup {key})
             ELSE DedupLoop_BySnippet(cs, n + 1, unique, seen)

\* _deduplicate: the loop over cs[n..] with unique and seen_texts so far
RECURSIVE DedupLoop(_, _, _, _)
DedupLoop(cs, n, unique, seen_texts) ==
    IF n > Len(cs) THEN unique
    ELSE LET matched == cs[n].matched_text
         IN  IF matched \notin seen_texts
             THEN DedupLoop(cs, n + 1, Append(unique, cs[n]), seen_texts \cup {matched})
             ELSE DedupLoop(cs, n + 1, unique, seen_texts)

Deduplicate_PerType(cs) ==
    IF cs = <<>> THEN <<>> ELSE DedupLoop_PerType(cs, 1, <<>>, {})

Deduplicate_BySnippet(cs) ==
    IF cs = <<>> THEN <<>> ELSE DedupLoop_BySnippet(cs, 1, <<>>, {})

\* _deduplicate(claims)
Deduplicate(cs) == IF cs = <<>> THEN <<>> ELSE DedupLoop(cs, 1, <<>>, {})

\* detect(text)
Detect(t) == Deduplicate(Candidates(t))

VaguePrefix == Lit(<< <<"geos", "eu", "ro">>, <<"in">>, <<"i">> >>)

vague_patterns ==
    << <<VaguePrefix, SpaceStar, Lit(<< <<"al", "ryeo", "jyeoss", "da">> >>)>>,
       <<VaguePrefix, SpaceStar, Lit(<< <<"bo", "in", "da">> >>)>>,
       <<VaguePrefix, SpaceStar, Lit(<< <<"chu", "jeong", "doen", "da">> >>)>>,
       <<VaguePrefix, SpaceStar, Lit(<< <<"jeon", "hae", "jyeoss", "da">> >>)>> >>

\* re.search(pattern, t) finds a match
Search(items, t) == \E pos \in 0..Len(t) : MatchHere(items, t, pos) # -1

\* has_vague_source with every part of each pattern optional: (?:...)?\s*(?:...)?
HasVagueSource_OptionalParts(t) ==
    \E n \in 1..Len(vague_patterns) :
        Search(<<Opt(<<vague_patterns[n][1]>>), SpaceStar, Opt(<<vague_patterns[n][3]>>)>>, t)

\* has_vague_source(text)
HasVagueSource(t) == \E n \in 1..Len(vague_patterns) : Search(vague_patterns[n], t)

-----------------------------------------------------------------------------
(* The detecting client: calls detect on a text                            *)

MaxTextFragments == 4

\* "all-time/ever" (sa-sang), a space, "largest", "surge", "because of" (tas-e),
\* a digit, "trillion won"
DetectFragments ==
    {<<"sa", "sang">>, <<" ">>, <<"choe", "dae">>, <<"pog", "jeung">>,
     <<"tas", "e">>, <<"3">>, <<"jo", "won">>}

DetectTexts == Concats(DetectFragments, MaxTextFragments)

ScoreIdle ==
    /\ scorers = [i \in ScorerIds |-> NewScorer]
    /\ article = EmptyDict
    /\ claims = <<>>
    /\ has_vague_source = FALSE
    /\ result = None
    /\ result2 = None
    /\ callers = <<>>
    /\ pc = "idle"

DetectInit ==
    /\ text \in DetectTexts
    /\ candidates = <<>>
    /\ detected = None
    /\ dpc = "ready"
    /\ ScoreIdle
    /\ DedupIdle
    /\ ReportIdle
    /\ StoreIdle

\* detected = detector.detect(text)
DetectCall ==
    /\ dpc = "ready"
    /\ candidates' = Candidates(text)
    /\ detected' = Deduplicate(candidates')
    /\ dpc' = "done"
    /\ UNCHANGED text
    /\ UNCHANGED scoreVars
    /\ UNCHANGED dedupVars
    /\ UNCHANGED reportVars
    /\ UNCHANGED storeVars

DetectNext == DetectCall

SpecDetect == DetectInit /\ [][DetectNext]_vars

-----------------------------------------------------------------------------
(* The analysing client: the analysis of one article in run_daily_report,  *)
(* detect and has_vague_source on its text, then calculate_score           *)

MaxAnalyzeTitleParts == 2
MaxAnalyzeTextParts == 2

\* "all-time" (a title keyword), "tax" (an economic keyword)
AnalyzeTitleFragments == {<<"yeog", "dae">>, <<"se", "geum">>}

\* "geos-eu-ro" and "bo-in-da" (together a vague-source phrase), "surge",
\* "government"
AnalyzeTextFragments ==
    {<<"geos", "eu", "ro">>, <<"bo", "in", "da">>, <<"pog", "jeung">>, <<"jeong", "bu">>}

AnalyzeArticles ==
    {[title |-> t, text |-> x] :
        t \in Concats(AnalyzeTitleFragments, MaxAnalyzeTitleParts),
        x \in Concats(AnalyzeTextFragments, MaxAnalyzeTextParts)}

AnalyzeInit ==
    /\ scorers = [i \in ScorerIds |-> NewScorer]
    /\ article \in AnalyzeArticles
    /\ claims = <<>>
    /\ has_vague_source = FALSE
    /\ result = None
    /\ result2 = None
    /\ callers = <<>>
    /\ pc = "ready"
    /\ text = <<>>
    /\ candidates = <<>>
    /\ detected = None
    /\ dpc = "ready"
    /\ DedupIdle
    /\ ReportIdle
    /\ StoreIdle

\* claims = self.detector.detect(article['text'])
\* has_vague = self.detector.has_vague_source(article['text'])
\* score_result = self.scorer.calculate_score(article, claims, has_vague)
AnalyzeArticle ==
    /\ pc = "ready"
    /\ dpc = "ready"
    /\ text' = article["text"]
    /\ candidates' = Candidates(text')
    /\ detected' = Deduplicate(candidates')
    /\ claims' = detected'
    /\ has_vague_source' = HasVagueSource(text')
    /\ result' = CalculateScore(scorers[1], article, claims', has_vague_source')
    /\ scorers' = [scorers EXCEPT ![1] =
            ScorerAfterCall(scorers[1], article, claims', has_vague_source')]
    /\ callers' = Append(callers, 1)
    /\ pc' = "done"
    /\ dpc' = "done"
    /\ UNCHANGED <<article, result2>>
    /\ UNCHANGED dedupVars
    /\ UNCHANGED reportVars
    /\ UNCHANGED storeVars

AnalyzeNext == AnalyzeArticle

SpecAnalyze == AnalyzeInit /\ [][AnalyzeNext]_vars

-----------------------------------------------------------------------------
(* difflib.SequenceMatcher(None, a, b).ratio(), as CPython computes it for *)
(* sequences shorter than 200 elements (no junk, no popularity heuristic)  *)

\* the length of the common run of a from i and b from j (0-based), kept
\* below ahi and bhi
RECURSIVE RunFrom(_, _, _, _, _, _)
RunFrom(a, b, i, j, ahi, bhi) ==
    IF i < ahi /\ j < bhi /\ a[i + 1] = b[j + 1]
    THEN 1 + RunFrom(a, b, i + 1, j + 1, ahi, bhi)
    ELSE 0

\* the largest element of a non-empty set of numbers
MaxOf(S) == CHOOSE x \in S : \A y \in S : y <= x
MinOf(S) == CHOOSE x \in S : \A y \in S : x <= y

\* find_longest_match(alo, ahi, blo, bhi): the longest block, of those the one
\* starting earliest in a, and of those the one starting earliest in b
FindLongestMatch(a, b, alo, ahi, blo, bhi) ==
    IF alo >= ahi \/ blo >= bhi THEN [i |-> alo, j |-> blo, size |-> 0]
    ELSE
        LET I == alo..(ahi - 1)
            J == blo..(bhi - 1)
            k == MaxOf({RunFrom(a, b, i, j, ahi, bhi) : i \in I, j \in J})
        IN  IF k = 0 THEN [i |-> alo, j |-> blo, size |-> 0]
            ELSE
                LET bi == MinOf({i \in I : \E j \in J : RunFrom(a, b, i, j, ahi, bhi) = k})
                    bj == MinOf({j \in J : RunFrom(a, b, bi, j, ahi, bhi) = k})
                IN  [i |-> bi, j |-> bj, size |-> k]

\* the summed sizes of get_matching_blocks() within a[alo:ahi], b[blo:bhi]
RECURSIVE Matches(_, _, _, _, _, _)
Matches(a, b, alo, ahi, blo, bhi) ==
    LET m == FindLongestMatch(a, b, alo, ahi, blo, bhi)
    IN  IF m.size = 0 THEN 0
        ELSE m.size
             + (IF alo < m.i /\ blo < m.j
                THEN Matches(a, b, alo, m.i, blo, m.j) ELSE 0)
             + (IF m.i + m.size < ahi /\ m.j + m.size < bhi
                THEN Matches(a, b, m.i + m.size, ahi, m.j + m.size, bhi) ELSE 0)

\* ratio() > 0.6, where ratio() is 2.0 * matches / (len(a) + len(b)), and 1.0
\* when both are empty
RatioAbove06(a, b) ==
    IF Len(a) + Len(b) = 0 THEN TRUE
    ELSE 10 * Matches(a, b, 0, Len(a), 0, Len(b)) > 3 * (Len(a) + Len(b))

-----------------------------------------------------------------------------
(* DailyEmailReporter._deduplicate_articles                                *)

\* ord(c) of the characters of a date string
Ord ==
    [c \in {"-", "0", "1", "2", "3", "4", "5", "6", "7", "8", "9"} |->
        CASE c = "-" -> 45 [] c = "0" -> 48 [] c = "1" -> 49 [] c = "2" -> 50
          [] c = "3" -> 51 [] c = "4" -> 52 [] c = "5" -> 53 [] c = "6" -> 54
          [] c = "7" -> 55 [] c = "8" -> 56 [] c = "9" -> 57]

\* a <= b on str
StrLeq(a, b) ==
    LET n == Min(Len(a), Len(b))
        D == {i \in 1..n : a[i] # b[i]}
    IN  IF D = {} THEN Len(a) <= Len(b)
        ELSE Ord[a[MinOf(D)]] < Ord[b[MinOf(D)]]

DateOf(item) == item["article"]["date"]
TitleOf(item) == item["article"]["title"]

\* sorted(articles, key=lambda x: x['article']['date']) left as it came
RECURSIVE SortByDate_Unsorted(_, _)
SortByDate_Unsorted(arts, n) ==
    IF n = 0 THEN <<>> ELSE Append(SortByDate_Unsorted(arts, n - 1), n)

\* sorted(articles, key=lambda x: -x['score']['total_score'])
RECURSIVE SortByDate_ByScore(_, _)
SortByDate_ByScore(arts, n) ==
    IF n = 0 THEN <<>>
    ELSE LET before == SortByDate_ByScore(arts, n - 1)
             Ahead(p) == arts[p]["score"]["total_score"] >= arts[n]["score"]["total_score"]
             Behind(p) == ~Ahead(p)
         IN  SelectSeq(before, Ahead) \o <<n>> \o SelectSeq(before, Behind)

\* sorted(articles, key=lambda x: x['article']['date']), of the first n
\* articles, as positions in articles: sorted() is stable
RECURSIVE SortByDate(_, _)
SortByDate(arts, n) ==
    IF n = 0 THEN <<>>
    ELSE LET before == SortByDate(arts, n - 1)
             Ahead(p) == StrLeq(DateOf(arts[p]), DateOf(arts[n]))
             Behind(p) == ~Ahead(p)
         IN  SelectSeq(before, Ahead) \o <<n>> \o SelectSeq(before, Behind)

\* similarity > 0.8
Similar_Above08(a, b) ==
    IF Len(a) + Len(b) = 0 THEN TRUE
    ELSE 10 * Matches(a, b, 0, Len(a), 0, Len(b)) > 4 * (Len(a) + Len(b))

\* similarity >= 0.6
Similar_AtLeast06(a, b) ==
    IF Len(a) + Len(b) = 0 THEN TRUE
    ELSE 10 * Matches(a, b, 0, Len(a), 0, Len(b)) >= 3 * (Len(a) + Len(b))

\* SequenceMatcher(None, a, b).ratio() > 0.6
Similar(a, b) == RatioAbove06(a, b)

\* the elements of the set S of numbers, ascending
RECURSIVE Ascending(_)
Ascending(S) ==
    IF S = {} THEN <<>> ELSE <<MinOf(S)>> \o Ascending(S \ {MinOf(S)})

\* the later positions position i takes in when a candidate is compared with
\* every article already in the group, not with the first one alone
RECURSIVE JoinAnyMember(_, _, _, _, _)
JoinAnyMember(arts, sorted, j, skip_indices, members) ==
    IF j > Len(sorted) THEN members
    ELSE IF /\ j \notin skip_indices
            /\ \E m \in members :
                   Similar(TitleOf(arts[sorted[m]]), TitleOf(arts[sorted[j]]))
         THEN JoinAnyMember(arts, sorted, j + 1, skip_indices, members \cup {j})
         ELSE JoinAnyMember(arts, sorted, j + 1, skip_indices, members)

\* the loop over i with a candidate compared with every member of the group
RECURSIVE GroupLoop_AnyMember(_, _, _, _, _)
GroupLoop_AnyMember(arts, sorted, i, skip_indices, acc) ==
    IF i > Len(sorted) THEN acc
    ELSE IF i \in skip_indices
         THEN GroupLoop_AnyMember(arts, sorted, i + 1, skip_indices, acc)
    ELSE
        LET joined == JoinAnyMember(arts, sorted, i + 1, skip_indices, {i}) \ {i}
            group == <<sorted[i]>> \o [k \in 1..Cardinality(joined) |->
                                          sorted[Ascending(joined)[k]]]
        IN  GroupLoop_AnyMember(arts, sorted, i + 1, skip_indices \cup joined,
                                Append(acc, group))

\* the loop over i without skip_indices.add(j)
RECURSIVE GroupLoop_NoSkip(_, _, _, _, _)
GroupLoop_NoSkip(arts, sorted, i, skip_indices, acc) ==
    IF i > Len(sorted) THEN acc
    ELSE
        LET joined == {j \in (i + 1)..Len(sorted) :
                          Similar(TitleOf(arts[sorted[i]]), TitleOf(arts[sorted[j]]))}
            group == <<sorted[i]>> \o [k \in 1..Cardinality(joined) |->
                                          sorted[Ascending(joined)[k]]]
        IN  GroupLoop_NoSkip(arts, sorted, i + 1, skip_indices, Append(acc, group))

\* the loop over i with the inner loop stopping at the first position that
\* does not join: for j in ...: ... else: break
RECURSIVE GroupLoop_BreakAtFirstMiss(_, _, _, _, _)
GroupLoop_BreakAtFirstMiss(arts, sorted, i, skip_indices, acc) ==
    IF i > Len(sorted) THEN acc
    ELSE IF i \in skip_indices
         THEN GroupLoop_BreakAtFirstMiss(arts, sorted, i + 1, skip_indices, acc)
    ELSE
        LET Joins(j) ==
                \/ j \in skip_indices
                \/ Similar(TitleOf(arts[sorted[i]]), TitleOf(arts[sorted[j]]))
            joined == {j \in (i + 1)..Len(sorted) :
                          /\ j \notin skip_indices
                          /\ \A h \in (i + 1)..j : Joins(h)}
            group == <<sorted[i]>> \o [k \in 1..Cardinality(joined) |->
                                          sorted[Ascending(joined)[k]]]
        IN  GroupLoop_BreakAtFirstMiss(arts, sorted, i + 1, skip_indices \cup joined,
                                       Append(acc, group))

\* the loop over i: every position not yet skipped opens a group and takes in
\* every later position not yet skipped whose title is similar to its own
RECURSIVE GroupLoop(_, _, _, _, _)
GroupLoop(arts, sorted, i, skip_indices, acc) ==
    IF i > Len(sorted) THEN acc
    ELSE IF i \in skip_indices THEN GroupLoop(arts, sorted, i + 1, skip_indices, acc)
    ELSE
        LET joined == {j \in (i + 1)..Len(sorted) :
                          /\ j \notin skip_indices
                          /\ Similar(TitleOf(arts[sorted[i]]), TitleOf(arts[sorted[j]]))}
            group == <<sorted[i]>> \o [k \in 1..Cardinality(joined) |->
                                          sorted[Ascending(joined)[k]]]
        IN  GroupLoop(arts, sorted, i + 1, skip_indices \cup joined, Append(acc, group))

Unknown == <<"U", "n", "k", "n", "o", "w", "n">>

\* f"{item['article']['source']} ({item['article'].get('journalist', 'Unknown')})"
InfoOf(item) ==
    item["article"]["source"] \o <<" ", "(">>
        \o Get(item["article"], "journalist", Unknown) \o <<")">>

\* [... for item in group]
RelatedInfo_WithSelected(arts, group) ==
    [k \in 1..Len(group) |-> InfoOf(arts[group[k]])]

\* [... for item in group[1:]]
RelatedInfo(arts, group) ==
    [k \in 1..(Len(group) - 1) |-> InfoOf(arts[group[k + 1]])]

\* the dicts after selected['related_count'] = ..., selected['related_info'] = ...
\* in every group
Selected(arts, gs) ==
    [p \in 1..Len(arts) |->
        IF \E g \in 1..Len(gs) : gs[g][1] = p
        THEN LET group == gs[CHOOSE g \in 1..Len(gs) : gs[g][1] = p]
             IN  Put(Put(arts[p], "related_count", Len(group) - 1),
                     "related_info", RelatedInfo(arts, group))
        ELSE arts[p]]

\* unique_articles[:6]
Truncate_Six(s) == SubSeq(s, 1, Min(6, Len(s)))

\* unique_articles[:5]
Truncate(s) == SubSeq(s, 1, Min(5, Len(s)))

-----------------------------------------------------------------------------
(* The deduplicating client: holds a batch of analysed articles and calls  *)
(* _deduplicate_articles on it, then once more on the same batch           *)

MaxBatch == 7
MaxDedupCalls == 2

Date(month, day) == <<"2", "0", "2", "6", "-">> \o month \o <<"-">> \o day

\* an analysed article as run_daily_report appends it
Analysed(url, title, date, source, journalist, total) ==
    [url |-> url,
     article |-> [title |-> title, text |-> <<>>, date |-> date,
                  source |-> source, journalist |-> journalist],
     claims |-> <<>>,
     score |-> [total_score |-> total, should_factcheck |-> total >= THRESHOLD]]

\* an analysed article whose article dict has no key journalist, which
\* .get('journalist', 'Unknown') allows for
WithoutJournalist(item) ==
    [item EXCEPT !["article"] =
        [k \in (DOMAIN item["article"]) \ {"journalist"} |-> item["article"][k]]]

KBS == <<"K", "B", "S">>
MBC == <<"M", "B", "C">>
SBS == <<"S", "B", "S">>

\* "tax surge", "tax jump", "tax-cut jump": the first two are similar (0.8),
\* the last two are similar (0.8), the first and the last are not (0.6)
TaxSurge == <<"se", "geum", " ", "pog", "jeung">>
TaxJump == <<"se", "geum", " ", "geub", "jeung">>
TaxCutJump == <<"gam", "se", " ", "geub", "jeung">>

\* the analysed articles a batch is drawn from
Pool ==
    << Analysed("u1", TaxSurge, Date(<<"1", "1">>, <<"0", "2">>), KBS,
                <<"gim", "cheol", "su">>, 60),
       Analysed("u2", TaxJump, Date(<<"1", "1">>, <<"0", "1">>), MBC, Unknown, 45),
       WithoutJournalist(
           Analysed("u3", TaxCutJump, Date(<<"1", "1">>, <<"0", "3">>), SBS, Unknown, 30)),
       Analysed("u4", TaxSurge, Date(<<"1", "1">>, <<"0", "2">>), MBC,
                <<"i", "yeong", "hui">>, 30),
       Analysed("u5", <<"yeog", "dae", " ", "choe", "dae">>,
                Date(<<"1", "0">>, <<"3", "1">>), KBS, Unknown, 50),
       Analysed("u6", <<"jeong", "bu", " ", "bal", "pyo">>,
                Date(<<"1", "1">>, <<"0", "3">>), SBS, <<"bag", "min", "su">>, 35),
       Analysed("u7", <<"mul", "ga", " ", "jo", "sa">>,
                Date(<<"0", "9">>, <<"3", "0">>), MBC, Unknown, 30),
       Analysed("u8", <<"su", "chul", " ", "tong", "gye">>,
                Date(<<"1", "1">>, <<"0", "1">>), KBS, <<"gim", "cheol", "su">>, 40),
       Analysed("u9", TaxJump, Date(<<"1", "1">>, <<"0", "3">>), SBS, Unknown, 30),
       Analysed("u10", <<"hwan", "yul">>,
                Date(<<"1", "1">>, <<"0", "4">>), MBC, <<"i", "yeong", "hui">>, 85) >>

\* the orders in which the articles of the pool can come in
Orders ==
    { <<1, 2, 3, 4, 5, 6, 7, 8, 9, 10>>,
      <<10, 9, 8, 7, 6, 5, 4, 3, 2, 1>>,
      <<4, 9, 2, 7, 10, 5, 1, 8, 3, 6>> }

\* the articles of the pool whose numbers are in S, in the order o
Batch(S, o) ==
    LET InS(p) == p \in S
        picked == SelectSeq(o, InS)
    IN  [k \in 1..Len(picked) |-> Pool[picked[k]]]

Batches ==
    {Batch(S, o) : S \in {T \in SUBSET (1..Len(Pool)) : Cardinality(T) <= MaxBatch},
                   o \in Orders}

DedupInit ==
    /\ articles \in Batches
    /\ groups = <<>>
    /\ unique_articles = <<>>
    /\ returned = <<>>
    /\ given = articles
    /\ ScoreIdle
    /\ DetectIdle
    /\ ReportIdle
    /\ StoreIdle

\* final_articles = self._deduplicate_articles(analyzed_articles)
DeduplicateArticles ==
    /\ Len(returned) < MaxDedupCalls
    /\ LET sorted_articles == SortByDate(articles, Len(articles))
           built == GroupLoop(articles, sorted_articles, 1, {}, <<>>)
           unique == [g \in 1..Len(built) |-> built[g][1]]
       IN  /\ groups' = built
           /\ articles' = Selected(articles, built)
           /\ unique_articles' = Truncate(unique)
           /\ returned' = Append(returned,
                  [k \in 1..Len(unique_articles') |-> articles'[unique_articles'[k]]])
    /\ UNCHANGED given
    /\ UNCHANGED scoreVars
    /\ UNCHANGED detectVars
    /\ UNCHANGED reportVars
    /\ UNCHANGED storeVars

DedupNext == DeduplicateArticles

SpecDedup == DedupInit /\ [][DedupNext]_vars

-----------------------------------------------------------------------------
(* RSSMonitor: the table articles, _save_article and get_pending_articles  *)

MaxLimit == 3

\* "increase", "decrease", "surge", "jump"
growth_keywords ==
    << <<"jeung", "ga">>, <<"gam", "so">>, <<"pog", "jeung">>, <<"geub", "jeung">> >>

\* "statistics", "survey", "announcement"
survey_keywords == << <<"tong", "gye">>, <<"jo", "sa">>, <<"bal", "pyo">> >>

\* the priority _save_article computes from the title alone
TitleScore(title) ==
    (IF AnyIn(growth_keywords, title) THEN 30 ELSE 0)
    + (IF AnyIn(survey_keywords, title) THEN 20 ELSE 0)

\* should_factcheck = score >= 30
SaveShouldFactcheck(score) == score >= 30

\* the row INSERT INTO articles adds; analyzed takes its default 0
NewRow(url, title, source) ==
    [url |-> url, title |-> title, source |-> source,
     priority_score |-> TitleScore(title),
     should_factcheck |-> SaveShouldFactcheck(TitleScore(title)),
     analyzed |-> FALSE]

\* SELECT id FROM articles WHERE url = ? finds a row
HasUrl(rs, url) == \E i \in 1..Len(rs) : rs[i].url = url

\* the table after INSERT OR REPLACE INTO articles, without the look-up
RowsAfterSave_Replace(rs, url, title, source) ==
    IF HasUrl(rs, url)
    THEN [i \in 1..Len(rs) |-> IF rs[i].url = url THEN NewRow(url, title, source) ELSE rs[i]]
    ELSE Append(rs, NewRow(url, title, source))

\* the table after _save_article(url, title, source, published)
RowsAfterSave(rs, url, title, source) ==
    IF HasUrl(rs, url) THEN rs ELSE Append(rs, NewRow(url, title, source))

\* what _save_article(url, title, source, published) returns
SaveReturn(rs, url, title) ==
    IF HasUrl(rs, url) THEN FALSE ELSE SaveShouldFactcheck(TitleScore(title))

\* WHERE should_factcheck = 1 AND analyzed = 0
PendingRows(rs) == {i \in 1..Len(rs) : rs[i].should_factcheck /\ ~rs[i].analyzed}

\* ORDER BY priority_score ASC
OrderedByScore_Ascending(rs, s) ==
    \A k \in 1..(Len(s) - 1) : rs[s[k]].priority_score <= rs[s[k + 1]].priority_score

\* ORDER BY priority_score DESC
OrderedByScore(rs, s) ==
    \A k \in 1..(Len(s) - 1) : rs[s[k]].priority_score >= rs[s[k + 1]].priority_score

\* the row orders ORDER BY priority_score DESC LIMIT limit can produce: rows
\* of equal score come in an order SQLite does not fix
PendingOrders(rs, limit) ==
    LET P == PendingRows(rs)
        n == Min(limit, Cardinality(P))
    IN  {s \in [1..n -> P] :
            /\ \A j, k \in 1..n : j # k => s[j] # s[k]
            /\ OrderedByScore(rs, s)
            /\ \A i \in P : (\A k \in 1..n : s[k] # i) =>
                   \A k \in 1..n : rs[s[k]].priority_score >= rs[i].priority_score}

\* SELECT url, title, source, priority_score of the rows s
PendingTuples(rs, s) ==
    [k \in 1..Len(s) |->
        [url |-> rs[s[k]].url, title |-> rs[s[k]].title,
         source |-> rs[s[k]].source, score |-> rs[s[k]].priority_score]]

\* the lists get_pending_articles(limit) can return
GetPendingArticles(rs, limit) == {PendingTuples(rs, s) : s \in PendingOrders(rs, limit)}

-----------------------------------------------------------------------------
(* The storing client: saves feed entries and asks for the pending ones    *)

StoreUrls == {"u1", "u2", "u3"}

\* "exchange rate" (0), "price survey" (20), "tax surge" (30),
\* "export statistics jump" (50)
StoreTitles ==
    { <<"hwan", "yul">>,
      <<"mul", "ga", " ", "jo", "sa">>,
      TaxSurge,
      <<"su", "chul", " ", "tong", "gye", " ", "geub", "jeung">> }

StoreInit ==
    /\ rows = <<>>
    /\ saved = <<>>
    /\ fetched = <<>>
    /\ ScoreIdle
    /\ DetectIdle
    /\ DedupIdle
    /\ ReportIdle

\* self._save_article(url, title, feed_name, published)
SaveArticle(url, title, source) ==
    /\ rows' = RowsAfterSave(rows, url, title, source)
    /\ saved' = <<[url |-> url, title |-> title, source |-> source,
                  existed |-> HasUrl(rows, url),
                  returned |-> SaveReturn(rows, url, title)]>>
    /\ fetched' = <<>>
    /\ UNCHANGED <<scoreVars, detectVars, dedupVars, reportVars>>

\* pending = monitor.get_pending_articles(limit)
GetPending(limit) ==
    /\ \E pending \in GetPendingArticles(rows, limit) :
        fetched' = <<[limit |-> limit, result |-> pending]>>
    /\ saved' = <<>>
    /\ UNCHANGED rows
    /\ UNCHANGED <<scoreVars, detectVars, dedupVars, reportVars>>

StoreNext ==
    \/ \E url \in StoreUrls, title \in StoreTitles : SaveArticle(url, title, KBS)
    \/ \E limit \in 0..MaxLimit : GetPending(limit)

SpecStore == StoreInit /\ [][StoreNext]_vars

-----------------------------------------------------------------------------
(* DailyEmailReporter.run_daily_report, from its start to the end of the   *)
(* loop that analyses the pending articles                                 *)

PendingLimit == 20

ManualUrl == "m1"

\* the title and source of the pending entry made up in manual mode
ManualTitle ==
    <<"su", "dong", " ", "ib", "ryeog", " ", "gi", "sa", " ", "(", "je", "mog", " ",
      "bun", "seog", " ", "jung", ")">>
UserInput == <<"U", "s", "e", "r", " ", "I", "n", "p", "u", "t">>

\* datetime.now().strftime('%Y-%m-%d')
Today == Date(<<"1", "1">>, <<"0", "3">>)

\* the feed entries that pass the keyword filter of collect_feeds: "tax
\* surge" (30), "export statistics jump" (50), "surge" (30), "price survey" (20)
FeedEntries ==
    << [url |-> "u1", title |-> TaxSurge, source |-> KBS],
       [url |-> "u2", title |-> <<"su", "chul", " ", "tong", "gye", " ", "geub", "jeung">>,
        source |-> MBC],
       [url |-> "u3", title |-> <<"pog", "jeung">>, source |-> SBS],
       [url |-> "u4", title |-> <<"mul", "ga", " ", "jo", "sa">>, source |-> KBS] >>

\* what the feeds can hold on the day of the run
Feeds ==
    {LET InS(k) == k \in S
         picked == SelectSeq(<<1, 2, 3, 4>>, InS)
     IN  [k \in 1..Len(picked) |-> FeedEntries[picked[k]]] : S \in SUBSET (1..Len(FeedEntries))}

\* the table after collect_feeds has saved the first n entries of feed
RECURSIVE CollectFeeds(_, _, _)
CollectFeeds(rs, feed, n) ==
    IF n = 0 THEN rs
    ELSE RowsAfterSave(CollectFeeds(rs, feed, n - 1),
                       feed[n].url, feed[n].title, feed[n].source)

\* what self.extractor.extract(url) can return: None (<<>>) or the dict of
\* an article with a non-empty text
ExtractResults(url) ==
    { <<>>,
      <<[url |-> url, title |-> TaxSurge,
         text |-> <<"3", "jo", "won", " ", "pog", "jeung">>,
         date |-> Date(<<"1", "1">>, <<"0", "2">>), source |-> KBS,
         journalist |-> <<"gim", "cheol", "su">>]>>,
      <<[url |-> url, title |-> <<"hwan", "yul">>, text |-> <<"jeong">>,
         date |-> Today, source |-> MBC, journalist |-> Unknown]>> }

\* the article put in the place of one whose extraction returned nothing
Placeholder(pending) ==
    [title |-> pending.title, text |-> <<>>, source |-> pending.source,
     date |-> Today, journalist |-> Unknown]

\* a try around the whole loop: an exception ends the loop
AfterException_LoopEnds(k, n) == n

\* the except clause inside the loop body: the loop goes on with the next one
AfterException(k, n) == k + 1

\* if True: every analysed article is appended
Keeps_Always(manual, score_result) == TRUE

\* if manual_url or score_result['should_factcheck']
Keeps(manual, score_result) == manual # None \/ score_result.should_factcheck

\* the methods class RSSMonitor defines
RSSMonitorMethods ==
    {"__init__", "_init_db", "collect_feeds", "_has_keyword", "_save_article",
     "get_pending_articles"}

\* journalist and journalist != 'Unknown', journalist read with .get
HasKnownJournalist(item) ==
    /\ "journalist" \in DOMAIN item["article"]
    /\ item["article"]["journalist"] # <<>>
    /\ item["article"]["journalist"] # Unknown

ReportInit ==
    /\ manual_url \in {None, ManualUrl}
    /\ pending_articles = <<>>
    /\ cursor = 0
    /\ analyzed_articles = <<>>
    /\ analysis_log = <<>>
    /\ final_articles = <<>>
    /\ emails = <<>>
    /\ rpc = "start"
    /\ ScoreIdle
    /\ DetectIdle
    /\ DedupIdle
    /\ StoreIdle

\* _send_no_articles_email(): an SMTP failure is caught and printed
SendNoArticlesEmail ==
    \E smtp_ok \in BOOLEAN :
        emails' = Append(emails, [kind |-> "no_articles", delivered |-> smtp_ok])

\* manual mode: the one pending entry is made of ARTICLE_URL
StartManual ==
    /\ rpc = "start"
    /\ manual_url # None
    /\ pending_articles' =
        <<[url |-> manual_url, title |-> ManualTitle, source |-> UserInput, score |-> 100]>>
    /\ rpc' = "loop"
    /\ UNCHANGED <<manual_url, cursor, analyzed_articles, analysis_log, emails>>
    /\ UNCHANGED final_articles
    /\ UNCHANGED <<scoreVars, detectVars, dedupVars, storeVars>>

\* automatic mode: collect_feeds(), then get_pending_articles(limit=20); with
\* nothing pending the "no articles" email is sent and the run returns
StartAuto ==
    /\ rpc = "start"
    /\ manual_url = None
    /\ \E feed \in Feeds :
        /\ rows' = CollectFeeds(rows, feed, Len(feed))
        /\ pending_articles' \in GetPendingArticles(rows', PendingLimit)
    /\ saved' = <<>>
    /\ fetched' = <<[limit |-> PendingLimit, result |-> pending_articles']>>
    /\ IF pending_articles' = <<>>
       THEN SendNoArticlesEmail /\ rpc' = "done"
       ELSE UNCHANGED emails /\ rpc' = "loop"
    /\ UNCHANGED <<manual_url, cursor, analyzed_articles, analysis_log, final_articles>>
    /\ UNCHANGED <<scoreVars, detectVars, dedupVars>>

\* one pass of the loop over pending_articles: extraction, the placeholder
\* when it returned nothing, detect, has_vague_source, calculate_score, the
\* append; raises says that an exception was raised somewhere in the try body
AnalyzePending ==
    /\ rpc = "loop"
    /\ cursor < Len(pending_articles)
    /\ \E raises \in BOOLEAN :
       \E extracted \in ExtractResults(pending_articles[cursor + 1].url) :
        LET pending == pending_articles[cursor + 1]
            art == IF extracted = <<>> THEN Placeholder(pending) ELSE extracted[1]
            found == Detect(art.text)
            has_vague == HasVagueSource(art.text)
            score_result == CalculateScore(scorers[1], art, found, has_vague)
        IN  IF raises
            THEN /\ analysis_log' = Append(analysis_log,
                        [url |-> pending.url, outcome |-> "raised"])
                 /\ cursor' = AfterException(cursor, Len(pending_articles))
                 /\ UNCHANGED <<analyzed_articles, scorers, callers>>
            ELSE /\ analysis_log' = Append(analysis_log,
                        [url |-> pending.url,
                         outcome |-> IF extracted = <<>> THEN "placeholder" ELSE "extracted",
                         article |-> art, claims |-> found, has_vague |-> has_vague,
                         score |-> score_result])
                 /\ analyzed_articles' =
                        IF Keeps(manual_url, score_result)
                        THEN Append(analyzed_articles,
                                 [url |-> pending.url, article |-> art,
                                  claims |-> found, score |-> score_result])
                        ELSE analyzed_articles
                 /\ scorers' = [scorers EXCEPT ![1] =
                        ScorerAfterCall(scorers[1], art, found, has_vague)]
                 /\ callers' = Append(callers, 1)
                 /\ cursor' = cursor + 1
    /\ rpc' = IF cursor' >= Len(pending_articles) THEN "analyzed" ELSE "loop"
    /\ UNCHANGED <<manual_url, pending_articles, emails, final_articles>>
    /\ UNCHANGED <<article, claims, has_vague_source, result, result2, pc>>
    /\ UNCHANGED <<detectVars, dedupVars, storeVars>>

\* the end of the run when articles were kept: deduplication, which writes
\* related_count and related_info into the kept dicts; the journalist
\* statistics of the final articles; the fact-check email, whose HTML report
\* starts with get_top_journalists. A call of a method RSSMonitor does not
\* define raises AttributeError, which leaves run_daily_report; so does an
\* SMTP failure of the fact-check email
ConcludeWithArticles ==
    /\ rpc = "analyzed"
    /\ analyzed_articles # <<>>
    /\ LET sorted_articles == SortByDate(analyzed_articles, Len(analyzed_articles))
           built == GroupLoop(analyzed_articles, sorted_articles, 1, {}, <<>>)
           unique == Truncate([g \in 1..Len(built) |-> built[g][1]])
       IN  /\ analyzed_articles' = Selected(analyzed_articles, built)
           /\ final_articles' = [k \in 1..Len(unique) |-> analyzed_articles'[unique[k]]]
    /\ IF /\ \E k \in 1..Len(final_articles') : HasKnownJournalist(final_articles'[k])
          /\ "update_journalist_stats" \notin RSSMonitorMethods
       THEN rpc' = "stats_raised" /\ UNCHANGED emails
       ELSE IF "get_top_journalists" \notin RSSMonitorMethods
       THEN rpc' = "report_raised" /\ UNCHANGED emails
       ELSE \E smtp_ok \in BOOLEAN :
               /\ emails' = Append(emails, [kind |-> "factcheck", delivered |-> smtp_ok])
               /\ rpc' = IF smtp_ok THEN "done" ELSE "smtp_raised"
    /\ UNCHANGED <<manual_url, pending_articles, cursor, analysis_log>>
    /\ UNCHANGED <<scoreVars, detectVars, dedupVars, storeVars>>

\* the end of the run when no article was kept: the "no articles" email
ConcludeWithoutArticles ==
    /\ rpc = "analyzed"
    /\ analyzed_articles = <<>>
    /\ final_articles' = <<>>
    /\ SendNoArticlesEmail
    /\ rpc' = "done"
    /\ UNCHANGED <<manual_url, pending_articles, cursor, analyzed_articles, analysis_log>>
    /\ UNCHANGED <<scoreVars, detectVars, dedupVars, storeVars>>

ReportNext ==
    \/ StartManual
    \/ StartAuto
    \/ AnalyzePending
    \/ ConcludeWithArticles
    \/ ConcludeWithoutArticles

SpecReport == ReportInit /\ [][ReportNext]_vars

-----------------------------------------------------------------------------
(* Properties of calculate_score                                           *)

Scored == pc = "done"

HasType(cs, t) == \E k \in 1..Len(cs) : cs[k].type = t

AllKeywords ==
    {political_keywords[k] : k \in 1..Len(political_keywords)}
    \cup {economic_keywords[k] : k \in 1..Len(economic_keywords)}

\* the categories whose trigger condition holds, the title bonus under titleKey
TriggeredKeys(art, cs, vague, titleKey) ==
    LET title == Get(art, "title", <<>>)
        body == Get(art, "text", <<>>)
    IN  {k \in {"statistical_claim"} : HasType(cs, "statistical")}
        \cup {k \in {"causal_claim"} : HasType(cs, "causal")}
        \cup {k \in {"extreme_language"} : HasType(cs, "extreme")}
        \cup {k \in {"vague_source"} : vague}
        \cup {k \in {"political_economic"} :
                \E kw \in AllKeywords : Contains(kw, title) \/ Contains(kw, body)}
        \cup {k \in {titleKey} :
                \E n \in 1..Len(title_keywords) : Contains(title_keywords[n], title)}

\* the breakdown the weight table prescribes
ExpectedBreakdown(art, cs, vague, titleKey) ==
    [k \in TriggeredKeys(art, cs, vague, titleKey) |->
        CASE k = "statistical_claim" -> 30
          [] k = "causal_claim" -> 20
          [] k = "extreme_language" -> 15
          [] k = "vague_source" -> 25
          [] k = "political_economic" -> 10
          [] OTHER -> 20]

\* C1: the values of the returned breakdown sum exactly to total_score.
C1_BreakdownSumsToTotal ==
    Scored => SumValues(result.breakdown) = result.total_score

\* C1 witness: a call in which all six categories fired.
C1_Witness ==
    Scored /\ Cardinality(DOMAIN result.breakdown) = 6 /\ result.total_score = 120

\* C2 as amended: breakdown has an entry exactly for each category whose trigger
\* condition holds, valued at that category's fixed weight, the title bonus being
\* entered under the key title_keyword; no other key appears.
C2_BreakdownIsTriggeredWeights ==
    Scored =>
        result.breakdown =
            ExpectedBreakdown(article, claims, has_vague_source, "title_keyword")

\* C2 as stated: the same, with the title bonus entered under title_keyword_bonus.
C2_AsStated ==
    Scored =>
        result.breakdown =
            ExpectedBreakdown(article, claims, has_vague_source, "title_keyword_bonus")

\* C2 witness: the title keyword "all-time" and the vague flag fired, and the
\* text, which holds only the first character of "government", fired nothing.
C2_Witness ==
    /\ Scored
    /\ Get(article, "text", <<>>) = <<"jeong">>
    /\ result.breakdown = [title_keyword |-> 20, vague_source |-> 25]

\* C3: should_factcheck is true if and only if total_score >= 30.
C3_FactcheckIffAtLeast30 ==
    Scored => (result.should_factcheck <=> result.total_score >= 30)

\* C3 witness: a total of exactly 30, flagged.
C3_Witness ==
    Scored /\ result.total_score = 30 /\ result.should_factcheck

\* C4: priority is HIGH exactly when total_score >= 85, MEDIUM exactly when
\* 70 <= total_score < 85, LOW exactly when total_score < 70.
C4_PriorityTiers ==
    Scored =>
        /\ result.priority = "HIGH" <=> result.total_score >= 85
        /\ result.priority = "MEDIUM" <=>
              (result.total_score >= 70 /\ result.total_score < 85)
        /\ result.priority = "LOW" <=> result.total_score < 70

\* C4 witness: statistical + vague + political + title bonus = 85 gives HIGH.
C4_Witness ==
    /\ Scored
    /\ DOMAIN result.breakdown =
          {"statistical_claim", "vague_source", "political_economic", "title_keyword"}
    /\ result.total_score = 85
    /\ result.priority = "HIGH"

\* the claim list holding one claim of each type that occurs in cs
OnePerType(cs) ==
    SelectSeq(<<ClaimOfType("statistical"), ClaimOfType("causal"), ClaimOfType("extreme")>>,
              LAMBDA c : HasType(cs, c.type))

\* C5: for a fixed article and vague flag, total_score and breakdown depend on the
\* claim list only through the set of claim types in it: the call returned what
\* a call with one claim of each type present returns, however many claims of
\* each type the list holds.
C5_WeightsDoNotAccumulate ==
    Scored =>
        LET one == CalculateScore(NewScorer, article, OnePerType(claims), has_vague_source)
        IN  /\ result.total_score = one.total_score
            /\ result.breakdown = one.breakdown

\* C5 witness: five statistical claims scored 30.
C5_Witness ==
    /\ Scored
    /\ Len(claims) = 5
    /\ \A k \in 1..5 : claims[k].type = "statistical"
    /\ result.statistical_claims = 5
    /\ result.breakdown["statistical_claim"] = 30

\* C6: every result with total_score in 30..69 has should_factcheck true and
\* priority LOW; when exactly the statistical and vague-source categories fire
\* the total is 55, flagged, LOW.
C6_FlaggedButLow ==
    Scored =>
        /\ (result.total_score >= 30 /\ result.total_score <= 69) =>
              (result.should_factcheck /\ result.priority = "LOW")
        /\ DOMAIN result.breakdown = {"statistical_claim", "vague_source"} =>
              (result.total_score = 55 /\ result.should_factcheck
               /\ result.priority = "LOW")

\* C6 witness: exactly statistical and vague-source fired: 55, flagged, LOW.
C6_Witness ==
    /\ Scored
    /\ DOMAIN result.breakdown = {"statistical_claim", "vague_source"}
    /\ result.total_score = 55
    /\ result.should_factcheck
    /\ result.priority = "LOW"

\* C7: a call repeated with equal arguments, on the same or on the other
\* instance and after any calls in between, returns an equal result.
C7_RepeatedCallAgrees ==
    pc = "again" => result2 = result

\* C7 witness: the call was repeated on the other instance after a call in
\* between, and some category fired.
C7_Witness ==
    /\ pc = "again"
    /\ Len(callers) = 3
    /\ callers[1] # callers[3]
    /\ result2.total_score > 0

-----------------------------------------------------------------------------
(* Properties of detect                                                    *)

Detected == dpc = "done"

\* the indices of the candidates whose matched_text no earlier candidate has
FirstOccurrences(cs) ==
    {i \in 1..Len(cs) : \A j \in 1..(i - 1) : cs[j].matched_text # cs[i].matched_text}

\* the k-th smallest element of a set of integers
Kth(I, k) == CHOOSE i \in I : Cardinality({j \in I : j <= i}) = k

\* C8: the claims detect returns have pairwise distinct matched_text, whatever
\* their types.
C8_MatchedTextsDistinct ==
    Detected =>
        \A i, j \in 1..Len(detected) :
            i # j => detected[i].matched_text # detected[j].matched_text

\* C8 witness: a statistical and an extreme candidate had the same matched_text,
\* and detect returned at least two claims.
C8_Witness ==
    /\ Detected
    /\ Len(detected) >= 2
    /\ \E i, j \in 1..Len(candidates) :
          /\ candidates[i].matched_text = candidates[j].matched_text
          /\ candidates[i].type = "statistical"
          /\ candidates[j].type = "extreme"

\* C9: the list detect returns is the subsequence of the candidate list, in
\* discovery order, made of the first candidate of each matched_text, each kept
\* as the whole record it was discovered with: candidates with the same
\* matched_text collapse to the first, candidates with different matched_text
\* are all kept even when their snippets are equal.
C9_KeepsFirstOfEachMatchedText ==
    Detected =>
        LET firsts == FirstOccurrences(candidates)
        IN  /\ Len(detected) = Cardinality(firsts)
            /\ \A k \in 1..Len(detected) : detected[k] = candidates[Kth(firsts, k)]
            /\ \A i, j \in 1..Len(candidates) :
                  (candidates[i].matched_text # candidates[j].matched_text
                   /\ candidates[i].claim = candidates[j].claim) =>
                      \E a, b \in 1..Len(detected) :
                          /\ detected[a].matched_text = candidates[i].matched_text
                          /\ detected[b].matched_text = candidates[j].matched_text

\* C9 witness: two candidates with the same matched_text and different records
\* were collapsed, and two returned claims have different matched_text and the
\* same snippet.
C9_Witness ==
    /\ Detected
    /\ \E i, j \in 1..Len(candidates) :
          /\ i < j
          /\ candidates[i].matched_text = candidates[j].matched_text
          /\ candidates[i] # candidates[j]
    /\ \E a, b \in 1..Len(detected) :
          /\ detected[a].matched_text # detected[b].matched_text
          /\ detected[a].claim = detected[b].claim
    /\ Len(detected) < Len(candidates)

\* the terms of extreme_words that a pattern of stat_patterns matches as well:
\* "sa-sang choe-dae", "sa-sang choe-go", "yeog-dae choe-dae", "yeog-dae choe-go"
AlsoStatistical ==
    {<<"sa", "sang", " ", "choe", "dae">>, <<"sa", "sang", " ", "choe", "go">>,
     <<"yeog", "dae", " ", "choe", "dae">>, <<"yeog", "dae", " ", "choe", "go">>}

\* C10 as stated: for every term of extreme_words that occurs in the text, the
\* returned list holds a claim of type extreme, confidence MEDIUM, whose
\* matched_text is the term.
C10_AsStated ==
    Detected =>
        \A n \in 1..Len(extreme_words) :
            Contains(extreme_words[n], text) =>
                \E k \in 1..Len(detected) :
                    /\ detected[k].matched_text = extreme_words[n]
                    /\ detected[k].type = "extreme"
                    /\ detected[k].confidence = "MEDIUM"

\* C10 as amended: for every term of extreme_words that occurs in the text, the
\* returned list holds exactly one claim whose matched_text is the term; it has
\* type extreme and confidence MEDIUM, unless the term is one of the four that
\* a statistical pattern also matches, and then it is the statistical claim,
\* confidence HIGH, discovered first.
C10_OneClaimPerExtremeTerm ==
    Detected =>
        \A n \in 1..Len(extreme_words) :
            Contains(extreme_words[n], text) =>
                LET hits == {k \in 1..Len(detected) :
                                detected[k].matched_text = extreme_words[n]}
                IN  /\ Cardinality(hits) = 1
                    /\ \A k \in hits :
                          IF extreme_words[n] \in AlsoStatistical
                          THEN detected[k].type = "statistical"
                               /\ detected[k].confidence = "HIGH"
                          ELSE detected[k].type = "extreme"
                               /\ detected[k].confidence = "MEDIUM"

\* C10 witness: the text holds "surge" and "sa-sang choe-dae"; the returned list
\* holds an extreme claim for the first and a statistical claim for the second.
C10_Witness ==
    /\ Detected
    /\ Contains(<<"pog", "jeung">>, text)
    /\ Contains(<<"sa", "sang", " ", "choe", "dae">>, text)
    /\ \E k \in 1..Len(detected) :
          detected[k].matched_text = <<"pog", "jeung">> /\ detected[k].type = "extreme"
    /\ \E k \in 1..Len(detected) :
          /\ detected[k].matched_text = <<"sa", "sang", " ", "choe", "dae">>
          /\ detected[k].type = "statistical"

-----------------------------------------------------------------------------
(* Properties of the analysis of one article                               *)

Analyzed == pc = "done" /\ dpc = "done"

\* the score the title alone earns: 10 for a political or economic keyword,
\* 20 for a strong-tone keyword
TitleOnlyScore(title) ==
    (IF \E kw \in AllKeywords : Contains(kw, title) THEN 10 ELSE 0)
    + (IF \E n \in 1..Len(title_keywords) : Contains(title_keywords[n], title)
       THEN 20 ELSE 0)

\* C11: on an empty text detect returns the empty list and has_vague_source
\* returns false, and calculate_score on the article with that empty text, no
\* claims and the flag false returns the score of the title alone, one of
\* 0, 10, 20, 30.
C11_EmptyTextIsNotAnError ==
    (Analyzed /\ article["text"] = <<>>) =>
        /\ detected = <<>>
        /\ has_vague_source = FALSE
        /\ result.claims_count = 0
        /\ result.total_score = TitleOnlyScore(article["title"])
        /\ result.total_score \in {0, 10, 20, 30}

\* C11 witness: an article with empty text whose title holds both kinds of
\* keyword was analysed and scored 30.
C11_Witness ==
    /\ Analyzed
    /\ article["text"] = <<>>
    /\ detected = <<>>
    /\ result.total_score = 30

-----------------------------------------------------------------------------
(* Properties of _deduplicate_articles                                     *)

Deduplicated == Len(returned) >= 1

\* the list the last call returned
LastReturned == returned[Len(returned)]

\* the representative of the g-th group, as the caller holds it
Representative(g) == articles[groups[g][1]]

\* "source (journalist)" of an analysed article, "Unknown" for a missing name
SourceAndJournalist(item) ==
    item["article"]["source"] \o <<" ", "(">>
        \o (IF "journalist" \in DOMAIN item["article"]
            THEN item["article"]["journalist"] ELSE Unknown)
        \o <<")">>

\* no two articles of the batch have titles of ratio above 0.6
NoTwoSimilar ==
    \A p, q \in 1..Len(given) :
        p # q => ~RatioAbove06(TitleOf(given[p]), TitleOf(given[q]))

\* C12: _deduplicate_articles returns at most 5 groups, exactly
\* min(5, number of groups formed).
C12_AtMostFiveGroups ==
    Deduplicated =>
        /\ Len(LastReturned) <= 5
        /\ Len(LastReturned) = Min(5, Len(groups))
        /\ Len(unique_articles) = Len(LastReturned)

\* C12 witness: more than five groups were formed and five were returned.
C12_Witness ==
    /\ Deduplicated
    /\ Len(groups) > 5
    /\ Len(LastReturned) = 5

\* C13: in every group the date string of the representative is less than or
\* equal to the date string of every other member, by string comparison.
C13_RepresentativeIsEarliest ==
    Deduplicated =>
        \A g \in 1..Len(groups) : \A k \in 2..Len(groups[g]) :
            StrLeq(DateOf(Representative(g)), DateOf(articles[groups[g][k]]))

\* C13 witness: a group whose representative came later in the batch than a
\* member with a strictly later date.
C13_Witness ==
    /\ Deduplicated
    /\ \E g \in 1..Len(groups) : \E k \in 2..Len(groups[g]) :
        /\ groups[g][1] > groups[g][k]
        /\ DateOf(Representative(g)) # DateOf(articles[groups[g][k]])

\* C14: the representative's related_count is the size of its group minus one,
\* and its related_info has related_count entries, the i-th being
\* "source (journalist)" of the i-th other member in the order they joined,
\* with "Unknown" for a missing journalist.
C14_RelatedCountAndInfo ==
    Deduplicated =>
        \A g \in 1..Len(groups) :
            /\ Representative(g)["related_count"] = Len(groups[g]) - 1
            /\ Len(Representative(g)["related_info"]) = Representative(g)["related_count"]
            /\ \A i \in 1..(Len(groups[g]) - 1) :
                Representative(g)["related_info"][i]
                    = SourceAndJournalist(articles[groups[g][i + 1]])

\* C14 witness: a group of three, one of the two others without a journalist.
C14_Witness ==
    /\ Deduplicated
    /\ \E g \in 1..Len(groups) :
        /\ Len(groups[g]) = 3
        /\ Representative(g)["related_count"] = 2
        /\ \E i \in 2..3 : "journalist" \notin DOMAIN articles[groups[g][i]]["article"]

\* C15: a batch of exactly two articles whose titles have ratio above 0.6 and
\* whose dates differ comes back as one group, its representative the one with
\* the smaller date string and its related_count 1, in either input order.
C15_TwoSimilarArticles ==
    (/\ Deduplicated
     /\ Len(given) = 2
     /\ RatioAbove06(TitleOf(given[1]), TitleOf(given[2]))
     /\ RatioAbove06(TitleOf(given[2]), TitleOf(given[1]))
     /\ DateOf(given[1]) # DateOf(given[2])) =>
        /\ Len(groups) = 1
        /\ Len(LastReturned) = 1
        /\ LastReturned[1]["related_count"] = 1
        /\ \A p \in 1..2 : StrLeq(DateOf(LastReturned[1]), DateOf(given[p]))
        /\ LastReturned[1]["url"] \in {given[1]["url"], given[2]["url"]}

\* C15 witness: two similar articles with different dates, the later one first
\* in the batch, came back as one group.
C15_Witness ==
    /\ Deduplicated
    /\ Len(given) = 2
    /\ RatioAbove06(TitleOf(given[1]), TitleOf(given[2]))
    /\ ~StrLeq(DateOf(given[1]), DateOf(given[2]))
    /\ Len(LastReturned) = 1
    /\ LastReturned[1]["url"] = given[2]["url"]

\* C16: a batch of n articles no two of whose titles have ratio above 0.6
\* comes back as min(n, 5) groups, each with related_count 0 and an empty
\* related_info; for n = 7, five groups.
C16_NoSimilarTitles ==
    (Deduplicated /\ NoTwoSimilar) =>
        /\ Len(LastReturned) = Min(Len(given), 5)
        /\ Len(groups) = Len(given)
        /\ \A k \in 1..Len(LastReturned) :
            /\ LastReturned[k]["related_count"] = 0
            /\ LastReturned[k]["related_info"] = <<>>

\* C16 witness: seven articles, no two similar, came back as five groups.
C16_Witness ==
    /\ Deduplicated
    /\ NoTwoSimilar
    /\ Len(given) = 7
    /\ Len(LastReturned) = 5

\* C17: the returned groups are in non-decreasing order of the date string of
\* their representatives, and the truncation keeps the first five in that
\* order whatever the scores: no dropped representative is earlier than a
\* kept one.
C17_OrderedByDateNotScore ==
    Deduplicated =>
        /\ \A k \in 1..(Len(LastReturned) - 1) :
            StrLeq(DateOf(LastReturned[k]), DateOf(LastReturned[k + 1]))
        /\ \A k \in 1..Len(unique_articles) : unique_articles[k] = groups[k][1]
        /\ \A g \in (Len(unique_articles) + 1)..Len(groups) :
            \A k \in 1..Len(LastReturned) :
                StrLeq(DateOf(LastReturned[k]), DateOf(Representative(g)))

\* C17 witness: a dropped representative has a higher total_score than every
\* kept one.
C17_Witness ==
    /\ Deduplicated
    /\ Len(groups) > 5
    /\ \E g \in 6..Len(groups) : \A k \in 1..Len(LastReturned) :
        Representative(g)["score"]["total_score"] > LastReturned[k]["score"]["total_score"]

\* C18, as stated: the call leaves the batch and every article in it as they
\* were, same keys and same values, and a second call on the same batch
\* returns a result equal to the first.
C18_AsStated ==
    Deduplicated =>
        /\ articles = given
        /\ Len(returned) = 2 => returned[1] = returned[2]

-----------------------------------------------------------------------------
(* Properties of the article store                                         *)

Fetched == Len(fetched) = 1

\* C20: get_pending_articles(limit) returns at most limit stored articles,
\* each with should_factcheck = 1 and analyzed = 0, in non-increasing order of
\* the priority_score _save_article computed from the title.
C20_PendingByDescendingScore ==
    Fetched =>
        /\ Len(fetched[1].result) <= fetched[1].limit
        /\ \A k \in 1..Len(fetched[1].result) :
            /\ \E i \in 1..Len(rows) :
                /\ rows[i].url = fetched[1].result[k].url
                /\ rows[i].title = fetched[1].result[k].title
                /\ rows[i].should_factcheck
                /\ ~rows[i].analyzed
            /\ fetched[1].result[k].score = TitleScore(fetched[1].result[k].title)
        /\ \A k \in 1..(Len(fetched[1].result) - 1) :
            fetched[1].result[k].score >= fetched[1].result[k + 1].score

\* C20 witness: three pending rows, the one of score 50 stored last; limit 2
\* returned it first, followed by one of score 30.
C20_Witness ==
    /\ Fetched
    /\ fetched[1].limit = 2
    /\ Len(rows) = 3
    /\ rows[3].priority_score = 50
    /\ rows[1].priority_score = 30
    /\ rows[2].priority_score = 30
    /\ Len(fetched[1].result) = 2
    /\ fetched[1].result[1].score = 50
    /\ fetched[1].result[2].score = 30

-----------------------------------------------------------------------------
(* Properties of run_daily_report                                          *)

InLoop == rpc \in {"loop", "analyzed"}

\* the k-th pending article is among the analysed articles kept
Kept(k) ==
    \E a \in 1..Len(analyzed_articles) :
        analyzed_articles[a].url = pending_articles[k].url

\* C19: a failure on one pending article never stops the analysis of the
\* others. Every pending article is taken in its turn, whatever happened to
\* the ones before it; one whose extraction returned nothing is replaced by a
\* placeholder (the pending title and source, empty text, journalist
\* "Unknown") that goes through detect, has_vague_source and calculate_score;
\* one whose analysis raised is skipped.
C19_FailureDoesNotStopTheLoop ==
    InLoop =>
        /\ Len(analysis_log) = cursor
        /\ rpc = "analyzed" => cursor = Len(pending_articles)
        /\ \A k \in 1..Len(analysis_log) :
            /\ analysis_log[k].url = pending_articles[k].url
            /\ analysis_log[k].outcome = "raised" => ~Kept(k)
            /\ analysis_log[k].outcome = "placeholder" =>
                /\ analysis_log[k].article.title = pending_articles[k].title
                /\ analysis_log[k].article.source = pending_articles[k].source
                /\ analysis_log[k].article.text = <<>>
                /\ analysis_log[k].article.journalist = Unknown
                /\ analysis_log[k].claims = Detect(<<>>)
                /\ analysis_log[k].has_vague = HasVagueSource(<<>>)
                /\ analysis_log[k].score =
                       CalculateScore(NewScorer, analysis_log[k].article,
                                      analysis_log[k].claims, analysis_log[k].has_vague)
                /\ (manual_url # None \/ analysis_log[k].score.should_factcheck) => Kept(k)

\* C19 witness: of three pending articles the first raised, the second was
\* replaced by a placeholder that scored and was kept, the third was
\* extracted and analysed.
C19_Witness ==
    /\ rpc = "analyzed"
    /\ Len(pending_articles) = 3
    /\ analysis_log[1].outcome = "raised"
    /\ analysis_log[2].outcome = "placeholder"
    /\ analysis_log[2].score.total_score = 30
    /\ Kept(2)
    /\ analysis_log[3].outcome = "extracted"

-----------------------------------------------------------------------------
(* Properties of the grouping in _deduplicate_articles                     *)

\* the positions in articles of the members of the g-th group
MembersOf(g) == {groups[g][k] : k \in 1..Len(groups[g])}

\* the title of the article at position p of the batch
TitleAt(p) == TitleOf(articles[p])

\* C21: a candidate joins a group only by comparison with the group's
\* representative: every other member of a group has a title of ratio above
\* 0.6 with the representative's, so an article of ratio 0.6 or less with the
\* representative is in another group, even if its ratio with another member
\* of the group is above 0.6.
C21_JoinsByRepresentativeOnly ==
    Deduplicated =>
        \A g \in 1..Len(groups) : \A k \in 2..Len(groups[g]) :
            RatioAbove06(TitleAt(groups[g][1]), TitleAt(groups[g][k]))

\* C21 witness: an article of a later group has ratio above 0.6 with a member
\* of an earlier group and not with that group's representative, in one case
\* a ratio of exactly 0.6 (3 matches in 10 characters).
C21_Witness ==
    /\ Deduplicated
    /\ \E g, h \in 1..Len(groups) :
        /\ g < h
        /\ \E k \in 2..Len(groups[g]) :
              RatioAbove06(TitleAt(groups[g][k]), TitleAt(groups[h][1]))
        /\ ~RatioAbove06(TitleAt(groups[g][1]), TitleAt(groups[h][1]))
        /\ 10 * Matches(TitleAt(groups[g][1]), TitleAt(groups[h][1]), 0,
                        Len(TitleAt(groups[g][1])), 0, Len(TitleAt(groups[h][1])))
              = 3 * (Len(TitleAt(groups[g][1])) + Len(TitleAt(groups[h][1])))

\* the sum of f[x] over the elements x of S
RECURSIVE SumOf(_, _)
SumOf(f, S) ==
    IF S = {} THEN 0
    ELSE LET x == CHOOSE y \in S : TRUE IN f[x] + SumOf(f, S \ {x})

\* C22: before the truncation the groups partition the batch: every article
\* of the batch is in exactly one group, in one place of it; an article that
\* joined a group is the representative of none; and 1 + related_count summed
\* over the groups formed is the size of the batch.
C22_GroupsPartitionTheBatch ==
    Deduplicated =>
        /\ \A p \in 1..Len(articles) :
            /\ \E g \in 1..Len(groups) : p \in MembersOf(g)
            /\ \A g, h \in 1..Len(groups) :
                   (p \in MembersOf(g) /\ p \in MembersOf(h)) => g = h
        /\ \A g \in 1..Len(groups) :
            /\ MembersOf(g) \subseteq 1..Len(articles)
            /\ Cardinality(MembersOf(g)) = Len(groups[g])
        /\ \A g, h \in 1..Len(groups) : \A k \in 2..Len(groups[g]) :
               groups[h][1] # groups[g][k]
        /\ SumOf([g \in 1..Len(groups) |-> 1 + Representative(g)["related_count"]],
                 1..Len(groups)) = Len(articles)

\* C22 witness: seven articles in more than five groups, one of them of two
\* or more articles.
C22_Witness ==
    /\ Deduplicated
    /\ Len(articles) = 7
    /\ Len(groups) > 5
    /\ \E g \in 1..Len(groups) : Len(groups[g]) >= 2

\* C23: the representatives are pairwise non-similar: of two representatives
\* the title of the one sorted earlier has a ratio of 0.6 or less with the
\* title of the one sorted later.
C23_RepresentativesNotSimilar ==
    Deduplicated =>
        \A g, h \in 1..Len(groups) :
            g < h => ~RatioAbove06(TitleAt(groups[g][1]), TitleAt(groups[h][1]))

\* C23 witness: two representatives whose titles share 3 of 10 characters,
\* a ratio of exactly 0.6, the earlier one with a related article.
C23_Witness ==
    /\ Deduplicated
    /\ \E g, h \in 1..Len(groups) :
        /\ g < h
        /\ Len(groups[g]) >= 2
        /\ Matches(TitleAt(groups[g][1]), TitleAt(groups[h][1]), 0,
                   Len(TitleAt(groups[g][1])), 0, Len(TitleAt(groups[h][1]))) = 3
        /\ Len(TitleAt(groups[g][1])) + Len(TitleAt(groups[h][1])) = 10

-----------------------------------------------------------------------------
(* The tier and the fact-check decision of calculate_score                 *)

\* C24: the tier implies the decision: every result of priority HIGH or
\* MEDIUM has should_factcheck true, and every result with should_factcheck
\* false has priority LOW.
C24_TierImpliesFactcheck ==
    Scored =>
        /\ result.priority \in {"HIGH", "MEDIUM"} => result.should_factcheck
        /\ ~result.should_factcheck => result.priority = "LOW"

\* C24 witness: a result of priority MEDIUM, below 85, with should_factcheck
\* true.
C24_Witness ==
    /\ Scored
    /\ result.priority = "MEDIUM"
    /\ result.total_score < 85
    /\ result.should_factcheck

-----------------------------------------------------------------------------
(* Properties of _save_article                                             *)

\* the table rs holds at most one row per URL
OneRowPerUrl(rs) ==
    \A i, j \in 1..Len(rs) : rs[i].url = rs[j].url => i = j

\* C27: the store holds at most one row per URL after any sequence of
\* _save_article calls: a call with a stored URL returns False and leaves
\* the table, and so the stored row, as it was; a call with a new URL adds one
\* row and returns True exactly when the score of the title is 30 or more.
C27_OneRowPerUrl ==
    [][ saved' # <<>> =>
          LET call == saved'[1]
              stored == \E i \in 1..Len(rows) : rows[i].url = call.url
          IN  /\ OneRowPerUrl(rows')
              /\ stored => (call.returned = FALSE /\ rows' = rows)
              /\ ~stored =>
                    /\ call.returned = (TitleScore(call.title) >= 30)
                    /\ Len(rows') = Len(rows) + 1
                    /\ SubSeq(rows', 1, Len(rows)) = rows
                    /\ rows'[Len(rows')].url = call.url
                    /\ rows'[Len(rows')].priority_score = TitleScore(call.title)
    ]_vars

\* C27 witness: a URL stored with a title of score 0 was saved again with a
\* title of score 50: the call returned False and the row kept its title.
C27_Witness ==
    /\ saved # <<>>
    /\ saved[1].returned = FALSE
    /\ TitleScore(saved[1].title) = 50
    /\ Len(rows) >= 2
    /\ \E i \in 1..Len(rows) :
        /\ rows[i].url = saved[1].url
        /\ rows[i].priority_score = 0
        /\ rows[i].title # saved[1].title


\* ---------------------------------------------------------------------------
\* Properties of the end of run_daily_report
\* ---------------------------------------------------------------------------

\* the run has left the loop and taken the branch on analyzed_articles
Concluded == rpc \in {"done", "stats_raised", "report_raised", "smtp_raised"}

\* C25: in automatic mode (ARTICLE_URL not set) every article that is passed
\* to deduplication, and so every article of the list handed to the
\* fact-check email, has should_factcheck = TRUE, that is a total score of at
\* least 30 from the scoring of the full text; in manual mode the one
\* requested article is passed on whatever its score, unless its analysis
\* raised.
C25_AutoKeepsOnlyFactcheckWorthy ==
    /\ manual_url = None =>
        /\ \A a \in 1..Len(analyzed_articles) :
            /\ analyzed_articles[a].score.should_factcheck
            /\ analyzed_articles[a].score.total_score >= THRESHOLD
        /\ \A k \in 1..Len(final_articles) :
            /\ final_articles[k].score.should_factcheck
            /\ final_articles[k].score.total_score >= THRESHOLD
        /\ \A k \in 1..Len(analysis_log) :
            (analysis_log[k].outcome # "raised" /\ Kept(k))
                => analysis_log[k].score.should_factcheck
    /\ (manual_url # None /\ rpc # "start") =>
        /\ Len(pending_articles) = 1
        /\ pending_articles[1].url = manual_url
        /\ \A k \in 1..Len(analysis_log) :
            analysis_log[k].outcome # "raised" =>
                /\ Kept(k)
                /\ Concluded =>
                    /\ Len(final_articles) = 1
                    /\ final_articles[1].url = manual_url
                    /\ final_articles[1].score = analysis_log[k].score

\* C25 witness: a manual run passed on an article whose score is below the
\* threshold, and an automatic run has dropped one article and kept another.
C25_WitnessManual ==
    /\ manual_url # None
    /\ Concluded
    /\ Len(final_articles) = 1
    /\ ~final_articles[1].score.should_factcheck

C25_Witness ==
    /\ manual_url = None
    /\ Concluded
    /\ Len(final_articles) >= 1
    /\ \E k \in 1..Len(analysis_log) :
        /\ analysis_log[k].outcome # "raised"
        /\ ~analysis_log[k].score.should_factcheck
        /\ ~Kept(k)


\* C26: every execution of run_daily_report has sent exactly one email when
\* it ends: the fact-check report if and only if deduplication produced at
\* least one group, otherwise the "no articles" notice; never both, never
\* none. An email counts as sent once it was handed to SMTP.
C26_AsStated ==
    Concluded =>
        /\ Len(emails) = 1
        /\ emails[1].kind = (IF Len(final_articles) >= 1 THEN "factcheck" ELSE "no_articles")

====
